---- MODULE Spec2Model ----
(***************************************************************************)
(* The duotone photo transformer: the per-pixel colour mapping of          *)
(* applyDuotoneEffect in its two variants (per-channel multipliers, fixed  *)
(* anchor colours) and the asynchronous read / decode / present pipeline   *)
(* of the App component around it.                                         *)
(***************************************************************************)
EXTENDS Integers, Sequences, FiniteSets, TLC

VARIABLES
    \* --- the mapper on its own (specification SpecMapper) ---
    mIn,            \* imageData as read by ctx.getImageData
    mCall,          \* the mapping the loop is run with
    mOut,           \* imageData after the loop, NULL before it ran
    \* --- the App component and its pipeline (specification Spec) ---
    app,            \* which App: "multiplier" (sliders) or "anchor"
    originalImage,  \* useState: the uploaded source, a data URL or NULL
    duotoneImage,   \* useState: the displayed artifact, a data URL or NULL
    isProcessing,   \* useState: the processing flag
    duotoneParams,  \* useState: the multipliers
    readers,        \* the FileReaders whose read has not ended
    pending,        \* the applyDuotoneEffect promises waiting on their Image
    alerts,         \* the number of alert() notifications shown
    nEvents,        \* the number of user events so far
    \* --- history, for stating the properties ---
    history,        \* per processImage call, in order: original and params
    lastExit,       \* the latest processImage call to end, and how
    displayedBy,    \* the call whose result duotoneImage holds, 0 if none
    failures        \* the number of read and decode failures so far

mapperVars == <<mIn, mCall, mOut>>

appVars ==
    <<app, originalImage, duotoneImage, isProcessing, duotoneParams, readers,
      pending, alerts, nEvents, history, lastExit, displayedBy, failures>>

vars == <<mapperVars, appVars>>

\* JavaScript null
NULL == [kind |-> "null"]

(***************************************************************************)
(* JavaScript numbers.  A finite number is the double nearest n/d; side    *)
(* tells on which side of n/d the double lies where that decides a         *)
(* rounding (0: on it, or immaterial).                                     *)
(***************************************************************************)
Fin(n, d) == [t |-> "fin", n |-> n, d |-> d, side |-> 0]

NaN == [t |-> "nan"]

NegInf == [t |-> "-inf"]

\* the largest byte value, the literal of Math.min(255, ...)
ByteMax == 255

\* samples per pixel, the stride of the loop (R, G, B, A)
Stride == 4

\* the divisor of the luminosity average
AvgDiv == 3

\* a multiplier slider's value counts tenths: step="0.1"
SliderDen == 10

\* max="3" of the sliders, in tenths
SliderMaxTenths == 30

\* parseFloat of a slider's value string, the decimal with k tenths
parseFloat(k) == Fin(k, SliderDen)

DEFAULT_DUOTONE_PARAMS ==
    [redMultiplier   |-> Fin(5, SliderDen),
     greenMultiplier |-> Fin(2, SliderDen),
     blueMultiplier  |-> Fin(12, SliderDen)]

(***************************************************************************)
(* The products avg * multiplier, avg = sum/3 and multiplier = k/10 with   *)
(* k in 0..30, whose exact value sum*k/30 is a half-integer in (0,255)     *)
(* while the IEEE-754 double product lies just above, or just below, it.   *)
(* Every other such product is exactly the half-integer.                   *)
(***************************************************************************)
ProductAbove ==
    { <<5, 21>>, <<5, 27>>, <<25, 9>>, <<25, 21>>, <<25, 27>>, <<65, 21>>,
      <<65, 27>>, <<75, 11>>, <<95, 27>>, <<115, 21>>, <<115, 27>>,
      <<135, 11>>, <<135, 27>>, <<145, 21>>, <<145, 27>>, <<165, 11>>,
      <<175, 21>>, <<175, 27>>, <<215, 21>>, <<215, 27>>, <<245, 21>>,
      <<245, 27>>, <<255, 11>>, <<255, 27>>, <<275, 21>>, <<275, 27>>,
      <<285, 11>>, <<305, 21>>, <<315, 11>>, <<335, 21>>, <<345, 11>>,
      <<385, 9>>, <<415, 9>>, <<495, 11>>, <<525, 11>>, <<555, 11>>,
      <<585, 11>>, <<615, 11>>, <<645, 11>>, <<675, 11>> }

ProductBelow ==
    { <<35, 3>>, <<55, 3>>, <<75, 23>>, <<125, 3>>, <<135, 7>>, <<135, 23>>,
      <<155, 3>>, <<165, 23>>, <<205, 3>>, <<235, 3>>, <<255, 7>>,
      <<255, 23>>, <<265, 3>>, <<285, 23>>, <<295, 3>>, <<315, 23>>,
      <<395, 3>>, <<425, 3>>, <<455, 3>>, <<485, 3>>, <<495, 7>>, <<515, 3>>,
      <<525, 7>>, <<545, 3>>, <<575, 3>>, <<605, 3>>, <<635, 3>> }

DoubleSide(sum, m) ==
    IF m.d = SliderDen /\ <<sum, m.n>> \in ProductAbove THEN 1
    ELSE IF m.d = SliderDen /\ <<sum, m.n>> \in ProductBelow THEN -1
    ELSE 0

\* avg * multiplier, with avg = sum / 3 (sum >= 0)
MulAvg(sum, m) ==
    CASE m.t = "nan"  -> NaN
      [] m.t = "-inf" -> IF sum = 0 THEN NaN ELSE NegInf
      [] OTHER        -> [t |-> "fin", n |-> sum * m.n, d |-> AvgDiv * m.d,
                          side |-> DoubleSide(sum, m)]

\* Math.min(255, x)
MathMin255(x) ==
    CASE x.t = "nan"  -> NaN
      [] x.t = "-inf" -> NegInf
      [] OTHER        -> IF x.n > ByteMax * x.d THEN Fin(ByteMax, 1) ELSE x

\* a store that truncates toward zero instead of rounding to nearest
StoreTruncated(x) ==
    CASE x.t = "nan"  -> 0
      [] x.t = "-inf" -> 0
      [] OTHER        -> IF x.n >= 0 THEN x.n \div x.d ELSE -((-x.n) \div x.d)

\* the store of a Uint8Array: truncated, then taken modulo 256
StoreWrapping(x) ==
    CASE x.t = "nan"  -> 0
      [] x.t = "-inf" -> 0
      [] OTHER        -> IF x.n >= 0 THEN (x.n \div x.d) % 256
                         ELSE (256 - (((-x.n) \div x.d) % 256)) % 256

\* a store that rounds to nearest but does not clamp below
StoreNoLowerClamp(x) ==
    CASE x.t = "nan"  -> 0
      [] x.t = "-inf" -> -1
      [] OTHER        -> IF x.n >= 0 THEN (2 * x.n + x.d) \div (2 * x.d)
                         ELSE -((2 * (-x.n) + x.d) \div (2 * x.d))

(***************************************************************************)
(* The store data[i] = x into the Uint8ClampedArray of an ImageData: NaN   *)
(* becomes 0, the value is clamped to [0,255] and rounded to the nearest   *)
(* integer, a tie going to the even one.                                   *)
(***************************************************************************)
ToUint8Clamp(x) ==
    CASE x.t = "nan"  -> 0
      [] x.t = "-inf" -> 0
      [] OTHER        ->
            IF x.n <= 0 THEN 0
            ELSE IF x.n >= ByteMax * x.d THEN ByteMax
            ELSE LET f == x.n \div x.d
                     r == x.n - f * x.d
                 IN  IF 2 * r < x.d THEN f
                     ELSE IF 2 * r > x.d THEN f + 1
                     ELSE IF x.side > 0 THEN f + 1
                     ELSE IF x.side < 0 THEN f
                     ELSE IF f % 2 = 0 THEN f ELSE f + 1

(***************************************************************************)
(* Anchor colours: hexToRgb on the two literals.  A string is the sequence *)
(* of its characters.                                                      *)
(***************************************************************************)
HexDigit(c) ==
    CASE c = "0" -> 0 [] c = "1" -> 1 [] c = "2" -> 2 [] c = "3" -> 3
      [] c = "4" -> 4 [] c = "5" -> 5 [] c = "6" -> 6 [] c = "7" -> 7
      [] c = "8" -> 8 [] c = "9" -> 9 [] c = "a" -> 10 [] c = "b" -> 11
      [] c = "c" -> 12 [] c = "d" -> 13 [] c = "e" -> 14 [] c = "f" -> 15

\* parseInt(hex.substring(from, to), 16) for a two-character substring
ParseHexPair(hex, from, to) ==
    LET s == SubSeq(hex, from + 1, to)
    IN  16 * HexDigit(s[1]) + HexDigit(s[2])

\* a hexToRgb that reads the blue pair from the green pair's place
hexToRgbShifted(hex) ==
    [r |-> ParseHexPair(hex, 1, 3),
     g |-> ParseHexPair(hex, 3, 5),
     b |-> ParseHexPair(hex, 3, 5)]

hexToRgb(hex) ==
    [r |-> ParseHexPair(hex, 1, 3),
     g |-> ParseHexPair(hex, 3, 5),
     b |-> ParseHexPair(hex, 5, 7)]

HighlightHex == <<"#", "f", "9", "9", "f", "d", "2">>

ShadowHex == <<"#", "1", "6", "5", "0", "2", "7">>

\* shadow + (highlight - shadow) * ratio, ratio = (sum / 3) / 255; the double
\* result rounds as the exact value does for every sum in 0..765
Interpolate(shadow, highlight, sum) ==
    Fin(shadow * AvgDiv * ByteMax + (highlight - shadow) * sum, AvgDiv * ByteMax)

(***************************************************************************)
(* The pixel loop.  data is the 1-based sequence of the samples, data[i]   *)
(* of the code being data[i + 1] here.                                     *)
(***************************************************************************)
\* the three stores of one iteration, with a fourth one into the alpha sample
WritePixelAndAlpha(data, i, r, g, b) ==
    [data EXCEPT ![i + 1] = r, ![i + 2] = g, ![i + 3] = b, ![i + 4] = ByteMax]

\* the three stores of one iteration
WritePixel(data, i, r, g, b) ==
    [data EXCEPT ![i + 1] = r, ![i + 2] = g, ![i + 3] = b]

\* Math.min(255, avg * multiplier), stored
MultiplierChannel(sum, m) == ToUint8Clamp(MathMin255(MulAvg(sum, m)))

\* Math.min(255, shadow + (highlight - shadow) * ratio), stored
AnchorChannel(shadow, highlight, sum) ==
    ToUint8Clamp(MathMin255(Interpolate(shadow, highlight, sum)))

RECURSIVE MultiplierLoop(_, _, _)
MultiplierLoop(data, i, params) ==
    IF i >= Len(data) THEN data
    ELSE LET sum == data[i + 1] + data[i + 2] + data[i + 3]
         IN  MultiplierLoop(
                 WritePixel(data, i,
                     MultiplierChannel(sum, params.redMultiplier),
                     MultiplierChannel(sum, params.greenMultiplier),
                     MultiplierChannel(sum, params.blueMultiplier)),
                 i + Stride, params)

RECURSIVE AnchorLoop(_, _, _, _)
AnchorLoop(data, i, shadowColor, highlightColor) ==
    IF i >= Len(data) THEN data
    ELSE LET sum == data[i + 1] + data[i + 2] + data[i + 3]
         IN  AnchorLoop(
                 WritePixel(data, i,
                     AnchorChannel(shadowColor.r, highlightColor.r, sum),
                     AnchorChannel(shadowColor.g, highlightColor.g, sum),
                     AnchorChannel(shadowColor.b, highlightColor.b, sum)),
                 i + Stride, shadowColor, highlightColor)

\* the loop of the multiplier variant on an ImageData
MultiplierTransform(imageData, params) ==
    [imageData EXCEPT !.data = MultiplierLoop(imageData.data, 0, params)]

\* the loop of the anchor variant on an ImageData
AnchorTransform(imageData, shadowHex, highlightHex) ==
    [imageData EXCEPT
        !.data = AnchorLoop(imageData.data, 0, hexToRgb(shadowHex),
                            hexToRgb(highlightHex))]

(***************************************************************************)
(* Inputs of the mapper taken on its own.                                  *)
(***************************************************************************)
\* the largest number of pixels of an input image
MaxPixels == 2

PixelSamples ==
    { <<90, 90, 90, 255>>, <<255, 255, 255, 200>>, <<0, 0, 0, 0>>,
      <<1, 0, 0, 255>>, <<1, 1, 1, 128>>, <<3, 3, 3, 255>>,
      <<35, 0, 0, 255>>, <<5, 0, 0, 255>>, <<200, 100, 250, 7>> }

RECURSIVE Flatten(_)
Flatten(pixels) ==
    IF pixels = <<>> THEN <<>> ELSE Head(pixels) \o Flatten(Tail(pixels))

\* the ImageData values getImageData can return for images of up to
\* MaxPixels pixels: data.length = width * height * 4
ImageDatas ==
    { [width |-> w, height |-> h, data |-> Flatten(px)] :
        <<w, h, px>> \in
            UNION { { <<w, h, px>> : px \in [1..(w * h) -> PixelSamples] } :
                    <<w, h>> \in { wh \in (1..MaxPixels) \X (1..MaxPixels) :
                                    wh[1] * wh[2] <= MaxPixels } } }

\* multipliers of type number: slider values and values no slider yields
MultiplierValues ==
    { parseFloat(k) : k \in {0, 2, 3, 5, 12, 27, SliderMaxTenths} }
    \cup { parseFloat(-5), NaN, NegInf }

ChannelNames == {"redMultiplier", "greenMultiplier", "blueMultiplier"}

\* the parameter sets one change away from the default
ParamSets ==
    { [DEFAULT_DUOTONE_PARAMS EXCEPT ![name] = v] :
        name \in ChannelNames, v \in MultiplierValues }

\* the anchor pair of the code, and the same two colours exchanged
AnchorPairs ==
    { [shadow |-> ShadowHex, highlight |-> HighlightHex],
      [shadow |-> HighlightHex, highlight |-> ShadowHex] }

MapperCalls ==
    { [variant |-> "multiplier", params |-> p] : p \in ParamSets }
    \cup { [variant |-> "anchor", anchors |-> a] : a \in AnchorPairs }

\* the App component as constructed: the useState initial values
AppInitial ==
    /\ originalImage = NULL
    /\ duotoneImage = NULL
    /\ isProcessing = FALSE
    /\ duotoneParams = DEFAULT_DUOTONE_PARAMS
    /\ readers = {}
    /\ pending = {}
    /\ alerts = 0
    /\ nEvents = 0
    /\ history = <<>>
    /\ lastExit = NULL
    /\ displayedBy = 0
    /\ failures = 0

MapperInit ==
    /\ mIn \in ImageDatas
    /\ mCall \in MapperCalls
    /\ mOut = NULL
    /\ app = "multiplier"
    /\ AppInitial

\* the loop of the multiplier variant runs
MapMultiplier ==
    /\ mOut = NULL
    /\ mCall.variant = "multiplier"
    /\ mOut' = MultiplierTransform(mIn, mCall.params)
    /\ UNCHANGED <<mIn, mCall, appVars>>

\* the loop of the anchor variant runs
MapAnchor ==
    /\ mOut = NULL
    /\ mCall.variant = "anchor"
    /\ mOut' = AnchorTransform(mIn, mCall.anchors.shadow, mCall.anchors.highlight)
    /\ UNCHANGED <<mIn, mCall, appVars>>

MapperNext == MapMultiplier \/ MapAnchor

SpecMapper == MapperInit /\ [][MapperNext]_vars

(***************************************************************************)
(* The pipeline of the App component.                                      *)
(***************************************************************************)
\* the most user events (file selections, drops, slider moves, clears)
MaxEvents == 3

\* the JPEG quality argument of toDataURL, in tenths
JpegQualityTenths == 9

\* file.type.startsWith('image/'), over the types of Files
IsImageType(type) == type \in {"image/png", "image/jpeg"}

OnePixel(px) == [width |-> 1, height |-> 1, data |-> px]

\* the files a user may select or drop: an image, a file of image type that
\* does not decode, and a text file
Files ==
    { [name |-> "grey.png",  type |-> "image/png",
       image |-> OnePixel(<<90, 90, 90, 255>>)],
      [name |-> "broken.png", type |-> "image/png", image |-> NULL],
      [name |-> "notes.txt", type |-> "text/plain", image |-> NULL] }

\* reader.result of readAsDataURL(file)
DataURL(file) == [kind |-> "dataurl", mime |-> file.type, image |-> file.image]

\* whether an Image given src fires onload (else onerror)
Decodable(src) == src.image # NULL

\* drawImage + getImageData of the loaded Image
Decode(src) == src.image

RECURSIVE OpaqueOnBlack(_, _)
\* the bitmap a format without alpha serialises: each pixel composited onto
\* opaque black
OpaqueOnBlack(data, i) ==
    IF i >= Len(data) THEN data
    ELSE LET a == data[i + 4]
             c(v) == (2 * v * a + ByteMax) \div (2 * ByteMax)
         IN  OpaqueOnBlack(
                 [data EXCEPT ![i + 1] = c(data[i + 1]), ![i + 2] = c(data[i + 2]),
                              ![i + 3] = c(data[i + 3]), ![i + 4] = ByteMax],
                 i + Stride)

\* canvas.toDataURL('image/jpeg', 0.9) after putImageData(imageData); the
\* codec's quantisation loss is left out
toDataURL(imageData) ==
    [kind |-> "dataurl", mime |-> "image/jpeg", quality |-> JpegQualityTenths,
     image |-> [imageData EXCEPT !.data = OpaqueOnBlack(imageData.data, 0)]]

\* the loop of the App in use
Transform(variant, imageData, params) ==
    IF variant = "multiplier" THEN MultiplierTransform(imageData, params)
    ELSE AnchorTransform(imageData, ShadowHex, HighlightHex)

\* what the onload handler resolves with when nothing throws
Artifact(variant, src, params) == toDataURL(Transform(variant, Decode(src), params))

\* an effect that feeds the displayed result back in once there is one
EffectSourceChained(orig, duo) == IF duo # NULL THEN duo ELSE orig

\* the argument the effect passes: processImage(originalImage)
EffectSource(orig, duo) == orig

\* a processImage that keeps the displayed image when the result is null
SettledImageKeepOnNull(cur, result) == IF result = NULL THEN cur ELSE result

\* setDuotoneImage(duotoneResult)
SettledImage(cur, result) == result

\* a processImage without its finally block: the flag is left as it is
SettleWithoutFinally(id, result) ==
    /\ duotoneImage' = SettledImage(duotoneImage, result)
    /\ UNCHANGED isProcessing
    /\ lastExit' = [id |-> id,
                    outcome |-> IF result = NULL THEN "failure" ELSE "success",
                    replaced |-> duotoneImage]
    /\ displayedBy' = IF result = NULL THEN 0 ELSE id
    /\ failures' = failures + (IF result = NULL THEN 1 ELSE 0)

\* the rest of processImage once the awaited promise has resolved with
\* result: setDuotoneImage(result), then finally setIsProcessing(false)
Settle(id, result) ==
    /\ duotoneImage' = SettledImage(duotoneImage, result)
    /\ isProcessing' = FALSE
    /\ lastExit' = [id |-> id,
                    outcome |-> IF result = NULL THEN "failure" ELSE "success",
                    replaced |-> duotoneImage]
    /\ displayedBy' = IF result = NULL THEN 0 ELSE id
    /\ failures' = failures + (IF result = NULL THEN 1 ELSE 0)

\* processImage(imageSrc) up to its await: setIsProcessing(true) and the
\* start of applyDuotoneEffect, which resolves with null at once when the
\* canvas has no 2d context and otherwise sets img.src
processImage(imageSrc, orig, params, ctxOk) ==
    LET id == Len(history) + 1
    IN  /\ history' = Append(history, [orig |-> orig, params |-> params])
        /\ IF ctxOk
           THEN /\ isProcessing' = TRUE
                /\ pending' = pending \cup
                       {[id |-> id, src |-> imageSrc, params |-> params]}
                /\ UNCHANGED <<duotoneImage, lastExit, displayedBy, failures>>
           ELSE /\ Settle(id, NULL)
                /\ UNCHANGED pending

\* the change event of the file input (disabled while processing)
handleImageUpload(file) ==
    /\ nEvents < MaxEvents
    /\ ~isProcessing
    /\ nEvents' = nEvents + 1
    /\ readers' = readers \cup {[n |-> nEvents + 1, file |-> file, via |-> "upload"]}
    /\ UNCHANGED <<app, originalImage, duotoneImage, isProcessing, duotoneParams,
                   pending, alerts, history, lastExit, displayedBy, failures>>

\* the drop event of the upload zone
handleDrop(file) ==
    /\ nEvents < MaxEvents
    /\ nEvents' = nEvents + 1
    /\ readers' = IF IsImageType(file.type)
                  THEN readers \cup {[n |-> nEvents + 1, file |-> file, via |-> "drop"]}
                  ELSE readers
    /\ UNCHANGED <<app, originalImage, duotoneImage, isProcessing, duotoneParams,
                   pending, alerts, history, lastExit, displayedBy, failures>>

\* reader.onload in the App with sliders: setOriginalImage(result), and the
\* effect that follows the render when the state changed
ReaderOnLoadOriginal(r, ctxOk) ==
    /\ app = "multiplier"
    /\ r \in readers
    /\ readers' = readers \ {r}
    /\ originalImage' = DataURL(r.file)
    /\ IF DataURL(r.file) # originalImage
       THEN processImage(EffectSource(DataURL(r.file), duotoneImage),
                         DataURL(r.file), duotoneParams, ctxOk)
       ELSE /\ ctxOk
            /\ UNCHANGED <<duotoneImage, isProcessing, pending, history, lastExit,
                           displayedBy, failures>>
    /\ UNCHANGED <<app, duotoneParams, alerts, nEvents>>

\* reader.onload in the App with anchor colours: processImage(reader.result)
ReaderOnLoadProcess(r, ctxOk) ==
    /\ app = "anchor"
    /\ r \in readers
    /\ readers' = readers \ {r}
    /\ processImage(DataURL(r.file), DataURL(r.file), NULL, ctxOk)
    /\ UNCHANGED <<app, originalImage, duotoneParams, alerts, nEvents>>

\* the read fails: reader.onerror alerts on the file-input path; the drop
\* path sets no onerror handler
ReaderOnError(r) ==
    /\ r \in readers
    /\ readers' = readers \ {r}
    /\ alerts' = IF r.via = "upload" THEN alerts + 1 ELSE alerts
    /\ failures' = failures + 1
    /\ UNCHANGED <<app, originalImage, duotoneImage, isProcessing, duotoneParams,
                   pending, nEvents, history, lastExit, displayedBy>>

\* a slider moves to another value (the sliders show once there is an
\* original): setDuotoneParams, and the effect that follows the render
handleParamChange(name, value, ctxOk) ==
    /\ app = "multiplier"
    /\ originalImage # NULL
    /\ nEvents < MaxEvents
    /\ parseFloat(value) # duotoneParams[name]
    /\ nEvents' = nEvents + 1
    /\ duotoneParams' = [duotoneParams EXCEPT ![name] = parseFloat(value)]
    /\ processImage(EffectSource(originalImage, duotoneImage), originalImage,
                    duotoneParams', ctxOk)
    /\ UNCHANGED <<app, originalImage, readers, alerts>>

\* img.onload: the loop runs and the promise resolves with the data URL, or
\* with null when reading or writing the pixels throws
ImgOnLoad(inv, throws) ==
    /\ inv \in pending
    /\ Decodable(inv.src)
    /\ pending' = pending \ {inv}
    /\ Settle(inv.id, IF throws THEN NULL ELSE Artifact(app, inv.src, inv.params))
    /\ UNCHANGED <<app, originalImage, duotoneParams, readers, alerts, nEvents,
                   history>>

\* img.onerror: the promise resolves with null
ImgOnError(inv) ==
    /\ inv \in pending
    /\ ~Decodable(inv.src)
    /\ pending' = pending \ {inv}
    /\ Settle(inv.id, NULL)
    /\ UNCHANGED <<app, originalImage, duotoneParams, readers, alerts, nEvents,
                   history>>

\* the close and New Photo buttons of the App with anchor colours
ClearResult ==
    /\ app = "anchor"
    /\ duotoneImage # NULL
    /\ nEvents < MaxEvents
    /\ nEvents' = nEvents + 1
    /\ duotoneImage' = NULL
    /\ displayedBy' = 0
    /\ UNCHANGED <<app, originalImage, isProcessing, duotoneParams, readers,
                   pending, alerts, history, lastExit, failures>>

\* the slider positions tried, in tenths
SliderSamples == {5, SliderMaxTenths}

Init ==
    /\ app \in {"multiplier", "anchor"}
    /\ AppInitial
    /\ mIn = OnePixel(<<90, 90, 90, 255>>)
    /\ mCall = [variant |-> "multiplier", params |-> DEFAULT_DUOTONE_PARAMS]
    /\ mOut = NULL

Next ==
    \/ \E f \in Files : handleImageUpload(f) /\ UNCHANGED mapperVars
    \/ \E f \in Files : handleDrop(f) /\ UNCHANGED mapperVars
    \/ \E r \in readers, c \in BOOLEAN :
            ReaderOnLoadOriginal(r, c) /\ UNCHANGED mapperVars
    \/ \E r \in readers, c \in BOOLEAN :
            ReaderOnLoadProcess(r, c) /\ UNCHANGED mapperVars
    \/ \E r \in readers : ReaderOnError(r) /\ UNCHANGED mapperVars
    \/ \E name \in ChannelNames, v \in SliderSamples, c \in BOOLEAN :
            handleParamChange(name, v, c) /\ UNCHANGED mapperVars
    \/ \E inv \in pending, t \in BOOLEAN : ImgOnLoad(inv, t) /\ UNCHANGED mapperVars
    \/ \E inv \in pending : ImgOnError(inv) /\ UNCHANGED mapperVars
    \/ ClearResult /\ UNCHANGED mapperVars

Spec == Init /\ [][Next]_vars

\* the Image of call id signals: load-complete or load-error
DecodeSignals(id) ==
    /\ \E inv \in pending :
          /\ inv.id = id
          /\ \/ ImgOnError(inv)
             \/ ImgOnLoad(inv, TRUE)
             \/ ImgOnLoad(inv, FALSE)
    /\ UNCHANGED mapperVars

\* the pipeline where every started decode eventually signals
FairSpec == Spec /\ \A id \in 1..MaxEvents : WF_vars(DecodeSignals(id))


(***************************************************************************)
(* Properties of the mapper (specification SpecMapper).                    *)
(***************************************************************************)
\* the offsets at which the pixels of an ImageData start
PixelStarts(imageData) ==
    { i \in 0..(Len(imageData.data) - 1) : i % 4 = 0 }

SumAt(imageData, i) ==
    imageData.data[i + 1] + imageData.data[i + 2] + imageData.data[i + 3]

Abs(x) == IF x < 0 THEN -x ELSE x

ClampInt(lo, hi, x) == IF x < lo THEN lo ELSE IF x > hi THEN hi ELSE x

MultiplierOf(params, c) ==
    CASE c = 1 -> params.redMultiplier
      [] c = 2 -> params.greenMultiplier
      [] c = 3 -> params.blueMultiplier

NonNegativeFinite(m) == m.t = "fin" /\ m.n >= 0

\* the mapper ran in multiplier mode with non-negative finite multipliers
MultiplierCaseDone ==
    /\ mOut # NULL
    /\ mCall.variant = "multiplier"
    /\ \A c \in 1..3 : NonNegativeFinite(MultiplierOf(mCall.params, c))

\* clamp(0, 255, (sum/3) * m) as a fraction over 3 * m.d: its numerator
MultiplierExactNum(sum, m) == ClampInt(0, 255 * 3 * m.d, sum * m.n)

\* C1 as stated: in multiplier mode with non-negative finite multipliers
\* every output colour sample equals clamp(0, 255, avg * multiplier) itself.
C1_ExactValue ==
    MultiplierCaseDone =>
        \A i \in PixelStarts(mIn), c \in 1..3 :
            LET m == MultiplierOf(mCall.params, c)
            IN  mOut.data[i + c] * (3 * m.d) = MultiplierExactNum(SumAt(mIn, i), m)

\* C1 amended: in multiplier mode with non-negative finite multipliers every
\* output colour sample is an integer nearest to clamp(0, 255, avg *
\* multiplier), at most 1/2 away from it, and the pixel (90,90,90,255) under
\* the multipliers (0.5, 0.2, 1.2) maps to (45,18,108,255).
C1_NearestInteger ==
    MultiplierCaseDone =>
        /\ \A i \in PixelStarts(mIn), c \in 1..3 :
              LET m == MultiplierOf(mCall.params, c)
                  D == 3 * m.d
              IN  2 * Abs(mOut.data[i + c] * D - MultiplierExactNum(SumAt(mIn, i), m))
                      <= D
        /\ (mIn.data = <<90, 90, 90, 255>>
              /\ MultiplierOf(mCall.params, 1) = [t |-> "fin", n |-> 5, d |-> 10, side |-> 0]
              /\ MultiplierOf(mCall.params, 2) = [t |-> "fin", n |-> 2, d |-> 10, side |-> 0]
              /\ MultiplierOf(mCall.params, 3) = [t |-> "fin", n |-> 12, d |-> 10, side |-> 0])
           => mOut.data = <<45, 18, 108, 255>>

\* the scenario of C1 has run, and so has a product that is no integer
C1_Witness ==
    /\ MultiplierCaseDone
    /\ SubSeq(mIn.data, 1, 4) = <<90, 90, 90, 255>>
    /\ SubSeq(mOut.data, 1, 4) = <<45, 18, 108, 255>>
    /\ Len(mIn.data) = 8
    /\ SubSeq(mIn.data, 5, 8) = <<5, 0, 0, 255>>
    /\ SubSeq(mOut.data, 5, 8) = <<1, 0, 2, 255>>

\* the anchor colours of the claim, as byte triples
ClaimShadow == <<22, 80, 39>>

ClaimHighlight == <<249, 159, 210>>

\* the mapper ran in anchor mode with the shadow and highlight of the code
AnchorCaseDone ==
    /\ mOut # NULL
    /\ mCall.variant = "anchor"
    /\ mCall.anchors.shadow = <<"#", "1", "6", "5", "0", "2", "7">>
    /\ mCall.anchors.highlight = <<"#", "f", "9", "9", "f", "d", "2">>

\* clamp(0, 255, s + (h - s) * (sum/3)/255) as a fraction over 765
AnchorExactNum(s, h, sum) == ClampInt(0, 255 * 765, s * 765 + (h - s) * sum)

\* C2 as stated: in anchor mode every output colour sample equals
\* clamp(0, 255, shadow + (highlight - shadow) * avg / 255) itself.
C2_ExactValue ==
    AnchorCaseDone =>
        \A i \in PixelStarts(mIn), c \in 1..3 :
            mOut.data[i + c] * 765 =
                AnchorExactNum(ClaimShadow[c], ClaimHighlight[c], SumAt(mIn, i))

\* C2 amended: in anchor mode every output colour sample is an integer
\* nearest to clamp(0, 255, shadow + (highlight - shadow) * avg / 255), at
\* most 1/2 away from it; a pixel with avg = 255 maps exactly to the
\* highlight (249,159,210), one with avg = 0 exactly to the shadow
\* (22,80,39), and the input alpha is kept.
C2_NearestInteger ==
    AnchorCaseDone =>
        \A i \in PixelStarts(mIn) :
            /\ \A c \in 1..3 :
                  2 * Abs(mOut.data[i + c] * 765
                          - AnchorExactNum(ClaimShadow[c], ClaimHighlight[c],
                                           SumAt(mIn, i))) <= 765
            /\ SumAt(mIn, i) = 765 =>
                  SubSeq(mOut.data, i + 1, i + 3) = ClaimHighlight
            /\ SumAt(mIn, i) = 0 =>
                  SubSeq(mOut.data, i + 1, i + 3) = ClaimShadow
            /\ mOut.data[i + 4] = mIn.data[i + 4]

\* the scenario of C2 has run: a white pixel of alpha 200 became the
\* highlight, beside a black pixel that became the shadow
C2_Witness ==
    /\ AnchorCaseDone
    /\ Len(mIn.data) = 8
    /\ SubSeq(mIn.data, 1, 4) = <<255, 255, 255, 200>>
    /\ SubSeq(mOut.data, 1, 4) = <<249, 159, 210, 200>>
    /\ SubSeq(mIn.data, 5, 8) = <<0, 0, 0, 0>>
    /\ SubSeq(mOut.data, 5, 8) = <<22, 80, 39, 0>>

\* C3: in both modes every sample of the output lies in [0,255], whatever
\* the multipliers (above 1, negative, NaN, -Infinity) and whichever of the
\* two anchor colours is the larger per channel.
C3_ByteRange ==
    mOut # NULL => \A k \in 1..Len(mOut.data) : mOut.data[k] \in 0..255

\* a negative multiplier met a pixel that is not black, next to a channel
\* clamped at 255
C3_Witness ==
    /\ mOut # NULL
    /\ mCall.variant = "multiplier"
    /\ mCall.params.redMultiplier.t = "fin"
    /\ mCall.params.redMultiplier.n < 0
    /\ SubSeq(mIn.data, 1, 4) = <<200, 100, 250, 7>>
    /\ mOut.data[1] = 0
    /\ mOut.data[3] = 220

\* C4: the transform keeps width, height and the length of the buffer, and
\* keeps the alpha sample of every pixel.
C4_ShapeAndAlpha ==
    mOut # NULL =>
        /\ mOut.width = mIn.width
        /\ mOut.height = mIn.height
        /\ Len(mOut.data) = Len(mIn.data)
        /\ Len(mOut.data) = mOut.width * mOut.height * 4
        /\ \A i \in PixelStarts(mIn) : mOut.data[i + 4] = mIn.data[i + 4]

\* a two-pixel image with alphas 200 and 7 went through and its colours
\* changed
C4_Witness ==
    /\ mOut # NULL
    /\ mIn.width = 1
    /\ mIn.height = 2
    /\ mIn.data[4] = 200
    /\ mIn.data[8] = 7
    /\ mOut.data[4] = 200
    /\ mOut.data[8] = 7
    /\ mOut.data[1] # mIn.data[1]
    /\ mOut.data[5] # mIn.data[5]

\* C10 as stated: with a NaN or negative-infinite multiplier the mapper
\* fails and produces no output.
C10_InvalidParamsNoOutput ==
    (/\ mCall.variant = "multiplier"
     /\ \E c \in 1..3 : MultiplierOf(mCall.params, c).t \in {"nan", "-inf"})
        => mOut = NULL

\* the multipliers a channel's output is compared across, in tenths
MonotoneTenths == (-5)..30

\* C11: in multiplier mode, for a pixel with avg > 0 and a finite multiplier
\* m of one channel, that channel's output under any multiplier m' >= m is
\* at least its output under m, and under any m' <= m at most that (the
\* other two multipliers do not enter the channel).
C11_Monotone ==
    (mOut # NULL /\ mCall.variant = "multiplier") =>
        \A i \in PixelStarts(mIn), c \in 1..3 :
            LET m == MultiplierOf(mCall.params, c)
                sum == SumAt(mIn, i)
            IN  (sum > 0 /\ m.t = "fin") =>
                    \A k \in MonotoneTenths :
                        /\ k >= m.n =>
                              MultiplierChannel(sum, [t |-> "fin", n |-> k, d |-> 10, side |-> 0])
                                  >= mOut.data[i + c]
                        /\ k <= m.n =>
                              MultiplierChannel(sum, [t |-> "fin", n |-> k, d |-> 10, side |-> 0])
                                  <= mOut.data[i + c]

\* the pixel (5,0,0) went through with blue multiplier 2.7, whose product
\* 4.5 is stored as 5, between the 4 of 2.6 and the 5 of 2.8
C11_Witness ==
    /\ mOut # NULL
    /\ mCall.variant = "multiplier"
    /\ SubSeq(mIn.data, 1, 4) = <<5, 0, 0, 255>>
    /\ mCall.params.blueMultiplier = [t |-> "fin", n |-> 27, d |-> 10, side |-> 0]
    /\ mOut.data[3] = 5
    /\ MultiplierChannel(5, [t |-> "fin", n |-> 26, d |-> 10, side |-> 0]) = 4
    /\ MultiplierChannel(5, [t |-> "fin", n |-> 28, d |-> 10, side |-> 0]) = 5

(***************************************************************************)
(* Properties of the pipeline (specification Spec).                        *)
(***************************************************************************)
\* C5 as stated: a result that comes to be displayed is that of the latest
\* processImage call started; the result of a superseded call is never
\* displayed.
C5_OnlyLatestDisplayed ==
    [][(displayedBy' # displayedBy /\ displayedBy' # 0)
          => displayedBy' = Len(history')]_vars

\* C6: when a processImage call ends in failure (load error, no drawing
\* context, or an exception while the pixels are read), the displayed
\* artifact is none afterwards, whatever was displayed before.
C6_FailureClearsArtifact ==
    [][(lastExit' # lastExit /\ lastExit'.outcome = "failure")
          => duotoneImage' = NULL]_vars

\* a call failed while an artifact of an earlier run was displayed, and
\* nothing is displayed now
C6_Witness ==
    /\ lastExit # NULL
    /\ lastExit.outcome = "failure"
    /\ lastExit.replaced # NULL
    /\ duotoneImage = NULL

\* C7: every call is given the original as it was when the call started,
\* and the displayed artifact is what the parameters of its call make of
\* that original directly.
C7_FromOriginal ==
    /\ \A inv \in pending : inv.src = history[inv.id].orig
    /\ displayedBy # 0 =>
          duotoneImage = Artifact(app, history[displayedBy].orig,
                                  history[displayedBy].params)

\* after a first artifact was displayed, a slider move produced the one
\* displayed now
C7_Witness ==
    /\ app = "multiplier"
    /\ displayedBy >= 2
    /\ lastExit # NULL
    /\ lastExit.id = displayedBy
    /\ lastExit.replaced # NULL
    /\ history[displayedBy].params # history[1].params
    /\ history[displayedBy].orig = history[1].orig

\* C8 as stated: once a call has ended in failure, no state has an original
\* image set while the result artifact is none.
C8_FailureClearsOriginal ==
    (lastExit # NULL /\ lastExit.outcome = "failure")
        => ~(originalImage # NULL /\ duotoneImage = NULL)

\* C9 as stated: every read failure and every decode failure has raised a
\* notification.
C9_EveryFailureNotified == failures <= alerts

\* call id waits on its Image
InFlight(id) == \E inv \in pending : inv.id = id

\* C12: where every started decode eventually signals, every call that
\* waits on its Image eventually stops waiting (no call stays in flight from
\* some point on, which is InFlight(id) ~> ~InFlight(id)); a call ends as
\* success with an artifact set or as failure with the artifact none, with
\* the processing flag false after it; and the flag is false whenever no
\* call is in flight.
C12_EveryCallEnds ==
    /\ \A id \in 1..MaxEvents : []<>~InFlight(id)
    /\ [][lastExit' # lastExit =>
            /\ isProcessing' = FALSE
            /\ \/ lastExit'.outcome = "success" /\ duotoneImage' # NULL
               \/ lastExit'.outcome = "failure" /\ duotoneImage' = NULL]_vars
    /\ [](pending = {} => isProcessing = FALSE)

\* two calls were started and both have ended, the last one in success
\* after one that failed; nothing is in flight and the flag is false
C12_Witness ==
    /\ Len(history) >= 2
    /\ pending = {}
    /\ lastExit # NULL
    /\ lastExit.id = Len(history)
    /\ lastExit.outcome = "success"
    /\ failures >= 1
    /\ duotoneImage # NULL
    /\ isProcessing = FALSE

\* C13 as stated: whenever a call is in flight the processing flag is true.
C13_FlagWhileInFlight == pending # {} => isProcessing = TRUE

====
